---- MODULE Spec2Model ----
(***************************************************************************)
(* One HarmonyHost instance of harmony-microservice (src/index.js): the    *)
(* poll loop, the activity-start state machine, the command indexes and    *)
(* the MQTT message handler, together with the hub they talk to.           *)
(*                                                                         *)
(* Strings are sequences of characters.  A character is a TLA+ string; a   *)
(* run of letters that no operation of the program looks inside (such as   *)
(* "command") is written as one character.                                 *)
(***************************************************************************)
EXTENDS Naturals, Sequences, FiniteSets, TLC

\* Number of MQTT messages delivered to the instance in one behaviour.
MaxMsgs == 1

----------------------------------------------------------------------------
(* JavaScript values *)

\* null / undefined / "" : the falsy values a string-valued expression takes.
Null == << >>

S(c) == << c >>

\* A plain object: whether it is defined at all, and its own properties as
\* <<key, value>> entries in insertion order (the order of Object.keys).
Undefined == [def |-> FALSE, ents |-> << >>]
EmptyObject == [def |-> TRUE, ents |-> << >>]

\* Property names every plain object inherits from Object.prototype.
ProtoKeys == { S("constructor") }

Keys(obj) == { obj.ents[i][1] : i \in 1..Len(obj.ents) }

HasOwn(obj, key) == obj.def /\ key \in Keys(obj)

IndexOf(obj, key) == CHOOSE i \in 1..Len(obj.ents) : obj.ents[i][1] = key

\* obj[key] for an own property.
Get(obj, key) == obj.ents[IndexOf(obj, key)][2]

\* The truthiness of obj[key]: an own property (all values stored are
\* objects), or a function inherited from Object.prototype.
Truthy(obj, key) == HasOwn(obj, key) \/ (obj.def /\ key \in ProtoKeys)

\* obj[key] = value: an existing key keeps its place, a new one is appended.
Put(obj, key, value) ==
    IF HasOwn(obj, key)
    THEN [obj EXCEPT !.ents[IndexOf(obj, key)] = <<key, value>>]
    ELSE [def |-> TRUE, ents |-> Append(obj.ents, <<key, value>>)]

----------------------------------------------------------------------------
(* Strings *)

\* Without the g flag: only the first ':' is doubled.
ReplaceColons_FirstOnly(s) ==
    IF \A i \in 1..Len(s) : s[i] # ":" THEN s
    ELSE LET i == CHOOSE k \in 1..Len(s) :
                      s[k] = ":" /\ \A j \in 1..(k-1) : s[j] # ":"
         IN  SubSeq(s, 1, i) \o <<":">> \o SubSeq(s, i + 1, Len(s))

RECURSIVE ReplaceColons(_)
\* String.prototype.replace(/:/g, '::')
ReplaceColons(s) ==
    IF s = << >> THEN << >>
    ELSE (IF Head(s) = ":" THEN <<":", ":">> ELSE <<Head(s)>>)
         \o ReplaceColons(Tail(s))

\* String.prototype.endsWith
EndsWith(s, suffix) ==
    /\ Len(s) >= Len(suffix)
    /\ SubSeq(s, Len(s) - Len(suffix) + 1, Len(s)) = suffix

RECURSIVE Split(_)
\* String.prototype.split('/')
Split(s) ==
    IF \A i \in 1..Len(s) : s[i] # "/" THEN << s >>
    ELSE LET i == CHOOSE k \in 1..Len(s) :
                      s[k] = "/" /\ \A j \in 1..(k-1) : s[j] # "/"
         IN  << SubSeq(s, 1, i - 1) >> \o Split(SubSeq(s, i + 1, Len(s)))

\* parts[i] of a JavaScript array (0-based); Null when out of range.
Part(parts, i) == IF i + 1 <= Len(parts) THEN parts[i + 1] ELSE Null

\* String.prototype.toLowerCase, on the characters that have an upper case.
Lower(c) == CASE c = "TV" -> "tv" [] c = "On" -> "on" [] c = "Off" -> "off"
              [] c = "Play" -> "play" [] c = "Mute" -> "mute"
              [] c = "Volume" -> "volume" [] c = "Up" -> "up"
              [] c = "Watch" -> "watch"
              [] OTHER -> c
NonAlnum == { " ", "-", ":", "/", "." }

RECURSIVE Hyphenate(_, _)
\* Lower-cases, and turns every run of non-alphanumerics into one pending
\* hyphen that is written only between two alphanumeric characters.
Hyphenate(s, pending) ==
    IF s = << >> THEN << >>
    ELSE IF Head(s) \in NonAlnum THEN Hyphenate(Tail(s), TRUE)
    ELSE (IF pending THEN <<"-">> ELSE << >>)
         \o << Lower(Head(s)) >> \o Hyphenate(Tail(s), FALSE)

RECURSIVE TrimLeft(_)
TrimLeft(s) == IF s # << >> /\ Head(s) \in NonAlnum THEN TrimLeft(Tail(s)) ELSE s

\* parameterize(label): lower case, non-alphanumerics stripped, hyphen-joined.
parameterize(label) == Hyphenate(TrimLeft(label), FALSE)

----------------------------------------------------------------------------
(* The hub's catalog, as harmonyClient reports it *)

Func(name, label, action) == [name |-> name, label |-> label, action |-> action]

\* harmonyClient.getActivities(): PowerOff and one activity with two control
\* groups; "Mute" is listed in both groups.
HubActivities ==
    << [id |-> S("-1"), label |-> S("PowerOff"), controlGroup |-> << >>],
       [id |-> S("a1"), label |-> <<"Watch", " ", "TV">>,
        controlGroup |->
          << << Func(S("VolumeUp"), <<"Volume", " ", "Up">>, <<"vol", ":", "up">>),
                Func(S("Mute"), S("Mute"), <<"mute", ":", "1">>) >>,
             << Func(S("Mute"), S("Mute"), <<":", "mute", ":", ":", "2">>) >> >>] >>

\* harmonyClient.getAvailableCommands().device
HubDevices ==
    << [id |-> S("1"), label |-> S("TV"),
        controlGroup |->
          << << Func(S("PowerOn"), S("On"), <<"tv", ":", "on">>),
                Func(S("PowerOff"), S("Off"), <<"tv", ":", "off", ":">>) >>,
             << Func(S("on"), <<"On", ".">>, <<"tv", ":", ":", "on2">>) >> >>],
       [id |-> S("2"), label |-> <<"TV", " ", "command">>,
        controlGroup |->
          << << Func(S("Play"), S("Play"), <<"play", ":", "it">>) >> >>] >>

\* The activity the hub can be in: the two of the catalog, and one created on
\* the hub after the catalog was fetched.
HubActs == { S("-1"), S("a1"), S("a9") }
PowerOff == S("-1")

RECURSIVE Flatten(_)
\* The functions of every group of a control group, in order.
Flatten(controlGroup) ==
    IF controlGroup = << >> THEN << >>
    ELSE Head(controlGroup) \o Flatten(Tail(controlGroup))

----------------------------------------------------------------------------
(* Command indexes *)

\* One entry of a device's command index; the action is escaped here.
DeviceCommand(func) ==
    [name   |-> func.name,
     slug   |-> parameterize(func.label),
     label  |-> func.label,
     action |-> ReplaceColons(func.action)]

RECURSIVE PutCommands_KeepFirst(_, _)
\* A slug already in the index keeps its first command.
PutCommands_KeepFirst(deviceCommands, funcs) ==
    IF funcs = << >> THEN deviceCommands
    ELSE PutCommands_KeepFirst(
             IF HasOwn(deviceCommands, parameterize(Head(funcs).label))
             THEN deviceCommands
             ELSE Put(deviceCommands, parameterize(Head(funcs).label),
                      DeviceCommand(Head(funcs))),
             Tail(funcs))

RECURSIVE PutCommands(_, _)
\* deviceCommands[slug] = {...} for each function in turn: a later function
\* with the same slug replaces the earlier one.
PutCommands(deviceCommands, funcs) ==
    IF funcs = << >> THEN deviceCommands
    ELSE PutCommands(Put(deviceCommands, parameterize(Head(funcs).label),
                         DeviceCommand(Head(funcs))),
                     Tail(funcs))

getCommandsFromControlGroup(controlGroup) ==
    PutCommands(EmptyObject, Flatten(controlGroup))

RECURSIVE PutByName_KeepFirst(_, _)
\* A name already in the map keeps its first function.
PutByName_KeepFirst(commands, funcs) ==
    IF funcs = << >> THEN commands
    ELSE PutByName_KeepFirst(
             IF HasOwn(commands, Head(funcs).name) THEN commands
             ELSE Put(commands, Head(funcs).name, Head(funcs)),
             Tail(funcs))

RECURSIVE PutByName(_, _)
\* commands[func.name] = func for each function in turn.
PutByName(commands, funcs) ==
    IF funcs = << >> THEN commands
    ELSE PutByName(Put(commands, Head(funcs).name, Head(funcs)), Tail(funcs))

\* getCommands(): the name-keyed map of the functions of the activity recorded
\* in state.currentActivity; threw when that activity is not in
\* state.activities (reading .controlGroup of undefined).
getCommands(acts, currentActivity) ==
    IF HasOwn(acts, currentActivity)
    THEN [threw |-> FALSE,
          value |-> PutByName(EmptyObject,
                      Flatten(Get(acts, currentActivity).controlGroup))]
    ELSE [threw |-> TRUE, value |-> Undefined]

RECURSIVE PutById(_, _)
PutById(obj, records) ==
    IF records = << >> THEN obj
    ELSE PutById(Put(obj, Head(records).id, Head(records)), Tail(records))

\* getActivities(): the hub's activity records keyed by id.
getActivities == PutById(EmptyObject, HubActivities)

\* A device record as getDevices() leaves it: slug and commands added.
Device(d) ==
    [id |-> d.id, label |-> d.label, slug |-> parameterize(d.label),
     commands |-> getCommandsFromControlGroup(d.controlGroup)]

RECURSIVE PutDevices(_, _, _)
PutDevices(obj, records, bySlug) ==
    IF records = << >> THEN obj
    ELSE PutDevices(Put(obj,
                        IF bySlug THEN parameterize(Head(records).label)
                                  ELSE Head(records).id,
                        Device(Head(records))),
                    Tail(records), bySlug)

\* getDevices(): returns the devices keyed by id, and sets this.deviceSlugs.
getDevices == PutDevices(EmptyObject, HubDevices, FALSE)
getDeviceSlugs == PutDevices(EmptyObject, HubDevices, TRUE)

\* findActivity(activity) against this.activities: the payload itself when it
\* is a (truthy) property of the map, else the key of the first activity with
\* that label, else null.
findActivity(acts, activity) ==
    IF ~acts.def THEN Null
    ELSE IF Truthy(acts, activity) THEN activity
    ELSE IF \E i \in 1..Len(acts.ents) : acts.ents[i][2].label = activity
    THEN acts.ents[CHOOSE i \in 1..Len(acts.ents) :
                     /\ acts.ents[i][2].label = activity
                     /\ \A j \in 1..(i-1) : acts.ents[j][2].label # activity][1]
    ELSE Null

\* The string JavaScript concatenates for a value that may be null/undefined.
NullToken == S("null")
UndefinedToken == S("undefined")

\* findAction(device, slug) for a device found in the index: the action under
\* that slug, else the action of the first command with that name, else null.
\* A slug naming an inherited property yields that property's .action, which
\* is undefined.
findAction(device, slug) ==
    LET slugs == device.commands IN
    IF HasOwn(slugs, slug) THEN Get(slugs, slug).action
    ELSE IF slug \in ProtoKeys THEN UndefinedToken
    ELSE IF \E i \in 1..Len(slugs.ents) : slugs.ents[i][2].name = slug
    THEN slugs.ents[CHOOSE i \in 1..Len(slugs.ents) :
                      /\ slugs.ents[i][2].name = slug
                      /\ \A j \in 1..(i-1) : slugs.ents[j][2].name # slug][2].action
    ELSE NullToken

----------------------------------------------------------------------------
(* The instance *)

VARIABLES
    state,        \* this.state, the LiveState (HostBase merges every assignment)
    activities,   \* whether this.activities is set (to getActivities)
    devices,      \* whether this.devices is set (to getDevices)
    deviceSlugs,  \* whether this.deviceSlugs is set (to getDeviceSlugs)
    connect,      \* where connect() / refresh() stands
    poll,         \* where poll() stands, and the locals of its current tick
    hubActivity,  \* the activity the hub is in
    msgs,         \* the message handler's invocations, in order of arrival
    harmonyClient, \* the connection this.harmonyClient refers to
    process,      \* the node process: running, or the signal that ended it
    pollLoops,    \* how many times poll() has been called
    lookup        \* a device record under indexing and resolution on its own

vars == << state, activities, devices, deviceSlugs, connect, poll, hubActivity, msgs,
           harmonyClient, process, pollLoops, lookup >>

\* this.activities and this.deviceSlugs: undefined until refresh() sets them.
thisActivities == IF activities THEN getActivities ELSE Undefined
thisDeviceSlugs == IF deviceSlugs THEN getDeviceSlugs ELSE Undefined

\* No device is under resolution on its own.
NoLookup == [pc |-> "none", raw |-> Null, device |-> Null, slug |-> Null,
             action |-> Null]

\* An event of one handler invocation: a publish() of the LiveState, or a call
\* on harmonyClient.
Publish(st) == [ev |-> "publish", arg |-> st.startingActivity, status |-> ""]
HubStart(activity) == [ev |-> "startActivity", arg |-> activity, status |-> ""]
Send(action, status) == [ev |-> "send", arg |-> action, status |-> status]

TopicPrefix == <<"harmony", "/", "hub", "/", "set">>
Topic(rest) == TopicPrefix \o rest

\* The messages delivered: <<topic, payload>>.
Messages ==
    { << Topic(<<"/", "command">>), S("VolumeUp") >>,
      << Topic(<<"/", "command">>), S("nope") >>,
      << Topic(<<"/", "command">>), S("constructor") >>,
      << Topic(<<"/", "activity">>), S("a1") >>,
      << Topic(<<"/", "activity">>), <<"Watch", " ", "TV">> >>,
      << Topic(<<"/", "activity">>), S("zz") >>,
      << Topic(<<"/", "activity">>), S("constructor") >>,
      << Topic(<<"/", "device", "/", "tv">>), S("on") >>,
      << Topic(<<"/", "device", "/", "tv">>), S("PowerOff") >>,
      << Topic(<<"/", "device", "/", "tv">>), S("nope") >>,
      << Topic(<<"/", "device", "/", "tv", "-", "command">>), S("Play") >>,
      << Topic(<<"/", "device", "/", "xx">>), S("on") >>,
      << Topic(<<"/", "scene">>), S("on") >> }

Init ==
    /\ state = [startingActivity |-> Null, currentActivity |-> Null,
                isOff |-> "undefined", commands |-> Undefined,
                activities |-> FALSE]
    /\ activities = FALSE
    /\ devices = FALSE
    /\ deviceSlugs = FALSE
    /\ connect = "harmony"
    /\ poll = [pc |-> "off", startingActivity |-> Null, currentActivity |-> Null,
               newActivity |-> FALSE, exception |-> "none"]
    /\ hubActivity \in HubActs
    /\ msgs = << >>
    /\ harmonyClient = "none"
    /\ process = "running"
    /\ pollLoops = 0
    /\ lookup = NoLookup

\* Someone changes the activity on the hub.
HubChange(a) ==
    /\ process = "running"
    /\ a # hubActivity
    /\ hubActivity' = a
    /\ UNCHANGED << state, activities, devices, deviceSlugs, connect, poll, msgs,
                    harmonyClient, process, pollLoops, lookup >>

----------------------------------------------------------------------------
(* poll() *)

\* The top of one iteration of the loop: the flag is read, and
\* getCurrentActivity() is called.
PollTop(st) ==
    [pc |-> "getCurrentActivity", startingActivity |-> st.startingActivity,
     currentActivity |-> Null, newActivity |-> FALSE, exception |-> "none"]

\* The activity counts as new only when it is the one being started.
newActivity_OnArrival(st, currentActivity) == st.startingActivity = currentActivity

newActivity(st, currentActivity) == st.currentActivity # currentActivity

\* The flag takes the polled activity when that is not the one being started.
newStartingActivity_Polled(startingActivity, currentActivity) ==
    IF startingActivity = currentActivity THEN Null ELSE currentActivity

newStartingActivity(startingActivity, currentActivity) ==
    IF startingActivity = currentActivity THEN Null ELSE startingActivity

\* The state a tick writes once isOff() has returned: the three polled fields,
\* and the command map when the activity is new.
PollWrite(st, p, isOff) ==
    LET written == [st EXCEPT
                      !.isOff = isOff,
                      !.currentActivity = p.currentActivity,
                      !.startingActivity =
                          newStartingActivity(p.startingActivity, p.currentActivity)]
        commands == getCommands(IF written.activities THEN getActivities ELSE Undefined,
                                written.currentActivity)
    IN  IF ~p.newActivity THEN [state |-> written, exception |-> "none"]
        ELSE IF commands.threw THEN [state |-> written, exception |-> "getCommands"]
        ELSE [state |-> [written EXCEPT !.commands = commands.value],
              exception |-> "none"]

\* getCurrentActivity() returns the hub's activity, or throws.
PollCurrentActivity(ok) ==
    /\ process = "running"
    /\ poll.pc = "getCurrentActivity"
    /\ poll' = IF ok
               THEN [poll EXCEPT !.pc = "isOff",
                                 !.currentActivity = hubActivity,
                                 !.newActivity = newActivity(state, hubActivity)]
               ELSE [poll EXCEPT !.pc = "wait", !.exception = "getCurrentActivity"]
    /\ UNCHANGED << state, activities, devices, deviceSlugs, connect, hubActivity, msgs,
                    harmonyClient, process, pollLoops, lookup >>

\* An exception of isOff() ends the loop.
PollIsOff_Stops(ok) ==
    /\ process = "running"
    /\ poll.pc = "isOff"
    /\ IF ok
       THEN LET w == PollWrite(state, poll,
                               IF hubActivity = PowerOff THEN "true" ELSE "false")
            IN  /\ state' = w.state
                /\ poll' = [poll EXCEPT !.pc = "wait", !.exception = w.exception]
       ELSE /\ poll' = [poll EXCEPT !.pc = "off", !.exception = "isOff"]
            /\ UNCHANGED state
    /\ UNCHANGED << activities, devices, deviceSlugs, connect, hubActivity, msgs,
                    harmonyClient, process, pollLoops, lookup >>

\* isOff() returns, and the tick writes the state; or it throws.
PollIsOff(ok) ==
    /\ process = "running"
    /\ poll.pc = "isOff"
    /\ IF ok
       THEN LET w == PollWrite(state, poll,
                               IF hubActivity = PowerOff THEN "true" ELSE "false")
            IN  /\ state' = w.state
                /\ poll' = [poll EXCEPT !.pc = "wait", !.exception = w.exception]
       ELSE /\ poll' = [poll EXCEPT !.pc = "wait", !.exception = "isOff"]
            /\ UNCHANGED state
    /\ UNCHANGED << activities, devices, deviceSlugs, connect, hubActivity, msgs,
                    harmonyClient, process, pollLoops, lookup >>

\* wait(POLL_TIME) is over: the next iteration starts.
PollWait ==
    /\ process = "running"
    /\ poll.pc = "wait"
    /\ poll' = PollTop(state)
    /\ UNCHANGED << state, activities, devices, deviceSlugs, connect, hubActivity, msgs,
                    harmonyClient, process, pollLoops, lookup >>

----------------------------------------------------------------------------
(* connect() and refresh() *)

\* harmony(this.ip) resolves: this.harmonyClient is set, the exit and SIGINT
\* listeners are registered and refresh() asks for the available commands; or
\* it rejects and connect() rejects.
ConnectHarmony(ok) ==
    /\ process = "running"
    /\ connect = "harmony"
    /\ connect' = IF ok THEN "getAvailableCommands" ELSE "failed"
    /\ harmonyClient' = IF ok THEN "open" ELSE harmonyClient
    /\ UNCHANGED << state, activities, devices, deviceSlugs, poll, hubActivity, msgs,
                    process, pollLoops, lookup >>

RefreshAvailableCommands(ok) ==
    /\ process = "running"
    /\ connect = "getAvailableCommands"
    /\ connect' = IF ok THEN "getDevices" ELSE "failed"
    /\ UNCHANGED << state, activities, devices, deviceSlugs, poll, hubActivity, msgs,
                    harmonyClient, process, pollLoops, lookup >>

\* getDevices() has its answer: this.deviceSlugs and this.devices are set and
\* getActivities() is called.
RefreshDevices(ok) ==
    /\ process = "running"
    /\ connect = "getDevices"
    /\ IF ok
       THEN /\ deviceSlugs' = TRUE
            /\ devices' = TRUE
            /\ connect' = "getActivities"
       ELSE /\ connect' = "failed"
            /\ UNCHANGED << devices, deviceSlugs >>
    /\ UNCHANGED << state, activities, poll, hubActivity, msgs,
                    harmonyClient, process, pollLoops, lookup >>

\* getActivities() has its answer: this.activities is set, refresh() resolves,
\* connect() merges the catalog into the state and starts poll(), whose first
\* iteration runs up to its getCurrentActivity() call.
RefreshActivities(ok) ==
    /\ process = "running"
    /\ connect = "getActivities"
    /\ IF ok
       THEN /\ activities' = TRUE
            /\ state' = [state EXCEPT !.activities = TRUE]
            /\ poll' = PollTop(state')
            /\ pollLoops' = pollLoops + 1
            /\ connect' = "connected"
       ELSE /\ connect' = "failed"
            /\ UNCHANGED << activities, state, poll, pollLoops >>
    /\ UNCHANGED << devices, deviceSlugs, hubActivity, msgs,
                    harmonyClient, process, lookup >>

----------------------------------------------------------------------------
(* The message handler *)

\* The branch the handler takes for a topic.
Route(topic) ==
    IF EndsWith(topic, S("command")) THEN "command"
    ELSE IF EndsWith(topic, S("activity")) THEN "activity"
    ELSE IF Part(Split(topic), 3) = S("device") THEN "device"
    ELSE "invalid"

\* What one call of command / startActivity / deviceCommand has done when it
\* first gives up control:
\*   pc        the hub call it awaits ("done": none)
\*   call      its promise: pending, resolved, rejected, or hung (never settled)
\*   unhandled whether it left a rejected promise nobody handles
Outcome(pc, call, unhandled, activity, action, log) ==
    [pc |-> pc, call |-> call, unhandled |-> unhandled,
     activity |-> activity, action |-> action, log |-> log]

\* An unknown name rejects instead of resolving with the Error.
command_RejectUnknown(st, message) ==
    LET commands == st.commands IN
    IF ~Truthy(commands, message)
    THEN Outcome("done", "rejected", TRUE, Null, Null, << >>)
    ELSE IF ~HasOwn(commands, message)
    THEN Outcome("done", "hung", TRUE, Null, Null, << >>)
    ELSE LET action == ReplaceColons(Get(commands, message).action)
         IN  Outcome("press", "pending", FALSE, Null, action,
                     << Send(action, "press") >>)

\* command(command): an unknown name resolves with an Error value; a name
\* found only on Object.prototype yields a control without .action, and the
\* executor throws before its try block.
command(st, message) ==
    LET commands == st.commands IN
    IF ~Truthy(commands, message)
    THEN Outcome("done", "resolved", FALSE, Null, Null, << >>)
    ELSE IF ~HasOwn(commands, message)
    THEN Outcome("done", "hung", TRUE, Null, Null, << >>)
    ELSE LET action == ReplaceColons(Get(commands, message).action)
         IN  Outcome("press", "pending", FALSE, Null, action,
                     << Send(action, "press") >>)

\* The hub is called before the state is published.
startActivityBegin_HubFirst(st, activity) ==
    LET started == [st EXCEPT !.startingActivity = activity]
    IN  [state |-> started, log |-> << HubStart(activity), Publish(started) >>]

\* The start of startActivity for a found activity: the flag is set, the
\* state published and the hub called.
startActivityBegin(st, activity) ==
    LET started == [st EXCEPT !.startingActivity = activity]
    IN  [state |-> started, log |-> << Publish(started), HubStart(activity) >>]

\* The flag is cleared but the state is not published again.
startActivityEnd_NoPublish(st, log) ==
    [state |-> [st EXCEPT !.startingActivity = Null], log |-> log]

\* The end of startActivity once the hub call has returned.
startActivityEnd(st, log) ==
    LET cleared == [st EXCEPT !.startingActivity = Null]
    IN  [state |-> cleared, log |-> Append(log, Publish(cleared))]

\* The action found in the device's index is escaped once more before it is
\* sent.
deviceCommand_EscapesAgain(slugs, deviceSlug, message) ==
    IF ~slugs.def \/ (~HasOwn(slugs, deviceSlug) /\ deviceSlug \in ProtoKeys)
    THEN Outcome("done", "rejected", TRUE, Null, Null, << >>)
    ELSE LET known  == HasOwn(slugs, deviceSlug)
             found  == IF known THEN findAction(Get(slugs, deviceSlug), message)
                       ELSE NullToken
             falsy  == found \in { NullToken, UndefinedToken }
             action == IF falsy THEN found ELSE ReplaceColons(found)
         IN  Outcome("press", "pending", falsy \/ ~known, Null, action,
                     << Send(action, "press") >>)

\* deviceCommand(deviceSlug, command).  Reading this.deviceSlugs before
\* refresh() has set it throws, and so does findAction on an inherited
\* property taken for a device.  An unknown device or action only creates a
\* rejected promise and goes on to send.
deviceCommand(slugs, deviceSlug, message) ==
    IF ~slugs.def \/ (~HasOwn(slugs, deviceSlug) /\ deviceSlug \in ProtoKeys)
    THEN Outcome("done", "rejected", TRUE, Null, Null, << >>)
    ELSE LET known  == HasOwn(slugs, deviceSlug)
             action == IF known THEN findAction(Get(slugs, deviceSlug), message)
                       ELSE NullToken
             falsy  == action \in { NullToken, UndefinedToken }
         IN  Outcome("press", "pending", falsy \/ ~known, Null, action,
                     << Send(action, "press") >>)

\* The promise of the handler itself: it awaits command and startActivity, and
\* returns without waiting for deviceCommand.
Handler(route, call) ==
    IF route \in { "command", "activity" }
    THEN (IF call = "hung" THEN "pending" ELSE call)
    ELSE "resolved"

Msg(topic, payload, o) ==
    [topic |-> topic, payload |-> payload, route |-> Route(topic),
     pc |-> o.pc, call |-> o.call, handler |-> Handler(Route(topic), o.call),
     unhandled |-> o.unhandled \/ Handler(Route(topic), o.call) = "rejected",
     activity |-> o.activity, action |-> o.action, log |-> o.log]

\* The handler's run for a message, until its first hub call.
Arrival(topic, payload) ==
    /\ process = "running"
    /\ LET route == Route(topic) IN
       CASE route = "command" ->
              /\ msgs' = Append(msgs, Msg(topic, payload, command(state, payload)))
              /\ UNCHANGED state
         [] route = "activity" ->
              LET activity == findActivity(thisActivities, payload) IN
              IF activity = Null
              THEN /\ msgs' = Append(msgs, Msg(topic, payload,
                                Outcome("done", "resolved", FALSE, Null, Null, << >>)))
                   /\ UNCHANGED state
              ELSE LET b == startActivityBegin(state, activity) IN
                   /\ state' = b.state
                   /\ msgs' = Append(msgs, Msg(topic, payload,
                                Outcome("startActivity", "pending", FALSE,
                                        activity, Null, b.log)))
         [] route = "device" ->
              /\ msgs' = Append(msgs, Msg(topic, payload,
                           deviceCommand(thisDeviceSlugs, Part(Split(topic), 4), payload)))
              /\ UNCHANGED state
         [] OTHER ->
              /\ msgs' = Append(msgs, Msg(topic, payload,
                           Outcome("done", "resolved", FALSE, Null, Null, << >>)))
              /\ UNCHANGED state
    /\ UNCHANGED << activities, devices, deviceSlugs, connect, poll, hubActivity,
                    harmonyClient, process, pollLoops, lookup >>

\* A message arrives.
Deliver(topic, payload) ==
    /\ Len(msgs) < MaxMsgs
    /\ Arrival(topic, payload)

\* The settled promise of a call, seen from the handler.
Settle(m, call) ==
    [m EXCEPT !.pc = "done", !.call = call,
              !.handler = Handler(m.route, call),
              !.unhandled = m.unhandled \/ call = "rejected"]

\* harmonyClient.startActivity() of invocation i returns, or fails.
StartActivityReturn(i, ok) ==
    /\ process = "running"
    /\ i \in 1..Len(msgs)
    /\ msgs[i].pc = "startActivity"
    /\ IF ok
       THEN LET e == startActivityEnd(state, msgs[i].log) IN
            /\ state' = e.state
            /\ msgs' = [msgs EXCEPT ![i] = [Settle(msgs[i], "resolved") EXCEPT !.log = e.log]]
       ELSE /\ msgs' = [msgs EXCEPT ![i] = Settle(msgs[i], "rejected")]
            /\ UNCHANGED state
    /\ UNCHANGED << activities, devices, deviceSlugs, connect, poll, hubActivity,
                    harmonyClient, process, pollLoops, lookup >>

\* The press send of invocation i returns and the release is sent, or fails.
PressReturn(i, ok) ==
    /\ process = "running"
    /\ i \in 1..Len(msgs)
    /\ msgs[i].pc = "press"
    /\ msgs' = [msgs EXCEPT ![i] =
                  IF ok
                  THEN [msgs[i] EXCEPT !.pc = "release",
                          !.log = Append(msgs[i].log, Send(msgs[i].action, "release"))]
                  ELSE Settle(msgs[i], "rejected")]
    /\ UNCHANGED << state, activities, devices, deviceSlugs, connect, poll, hubActivity,
                    harmonyClient, process, pollLoops, lookup >>

\* The release send of invocation i returns, or fails.
ReleaseReturn(i, ok) ==
    /\ process = "running"
    /\ i \in 1..Len(msgs)
    /\ msgs[i].pc = "release"
    /\ msgs' = [msgs EXCEPT ![i] = Settle(msgs[i], IF ok THEN "resolved" ELSE "rejected")]
    /\ UNCHANGED << state, activities, devices, deviceSlugs, connect, poll, hubActivity,
                    harmonyClient, process, pollLoops, lookup >>

----------------------------------------------------------------------------

Next ==
    \/ \E a \in HubActs : HubChange(a)
    \/ \E ok \in BOOLEAN : ConnectHarmony(ok)
    \/ \E ok \in BOOLEAN : RefreshAvailableCommands(ok)
    \/ \E ok \in BOOLEAN : RefreshDevices(ok)
    \/ \E ok \in BOOLEAN : RefreshActivities(ok)
    \/ \E ok \in BOOLEAN : PollCurrentActivity(ok)
    \/ \E ok \in BOOLEAN : PollIsOff(ok)
    \/ PollWait
    \/ \E m \in Messages : Deliver(m[1], m[2])
    \/ \E i \in 1..MaxMsgs, ok \in BOOLEAN : StartActivityReturn(i, ok)
    \/ \E i \in 1..MaxMsgs, ok \in BOOLEAN : PressReturn(i, ok)
    \/ \E i \in 1..MaxMsgs, ok \in BOOLEAN : ReleaseReturn(i, ok)

Spec == Init /\ [][Next]_vars

\* The steps of the instance and of the hub, apart from the arrival of
\* messages.
Steps ==
    \/ \E a \in HubActs : HubChange(a)
    \/ \E ok \in BOOLEAN : ConnectHarmony(ok)
    \/ \E ok \in BOOLEAN : RefreshAvailableCommands(ok)
    \/ \E ok \in BOOLEAN : RefreshDevices(ok)
    \/ \E ok \in BOOLEAN : RefreshActivities(ok)
    \/ \E ok \in BOOLEAN : PollCurrentActivity(ok)
    \/ \E ok \in BOOLEAN : PollIsOff(ok)
    \/ PollWait
    \/ \E i \in 1..MaxMsgs, ok \in BOOLEAN : StartActivityReturn(i, ok)
    \/ \E i \in 1..MaxMsgs, ok \in BOOLEAN : PressReturn(i, ok)
    \/ \E i \in 1..MaxMsgs, ok \in BOOLEAN : ReleaseReturn(i, ok)

\* The messages that write the LiveState under the poll loop, and one that
\* does not.
PollMessages ==
    { << Topic(<<"/", "activity">>), S("a1") >>,
      << Topic(<<"/", "device", "/", "tv">>), S("on") >> }

NextPoll ==
    \/ Steps
    \/ \E m \in PollMessages : Deliver(m[1], m[2])

\* Every hub call of the poll loop returns or throws, and its timer fires.
SpecPoll ==
    /\ Init /\ [][NextPoll]_vars
    /\ WF_vars(\E ok \in BOOLEAN : PollCurrentActivity(ok))
    /\ WF_vars(\E ok \in BOOLEAN : PollIsOff(ok))
    /\ WF_vars(PollWait)

----------------------------------------------------------------------------
(* The command index of one device, on its own *)

\* Labels, two of which have the same slug, and names of functions.
IndexLabels == { S("On"), <<"On", ".">>, S("Off") }
IndexNames == { S("on"), S("off"), S("PowerOff") }

\* The action of the function listed at place i; every one holds a ':'.
IndexAction(i) == << "act", ":", CASE i = 1 -> "1" [] i = 2 -> "2" [] OTHER -> "3" >>

\* The devices the hub may report: three functions, in one control group or
\* in two.
IndexDevices ==
    { [id |-> S("1"), label |-> S("TV"),
       controlGroup |-> IF split THEN << << f1, f2 >>, << f3 >> >>
                                 ELSE << << f1, f2, f3 >> >>] :
        split \in BOOLEAN,
        f1 \in { Func(n, l, IndexAction(1)) : n \in IndexNames, l \in IndexLabels },
        f2 \in { Func(n, l, IndexAction(2)) : n \in IndexNames, l \in IndexLabels },
        f3 \in { Func(n, l, IndexAction(3)) : n \in IndexNames, l \in IndexLabels } }

\* The activities the hub may report: three functions, in one control group
\* or in two, with names that may repeat.
IndexActivities ==
    { [id |-> S("a1"), label |-> <<"Watch", " ", "TV">>,
       controlGroup |-> IF split THEN << << f1, f2 >>, << f3 >> >>
                                 ELSE << << f1, f2, f3 >> >>] :
        split \in BOOLEAN,
        f1 \in { Func(n, n, IndexAction(1)) : n \in IndexNames },
        f2 \in { Func(n, n, IndexAction(2)) : n \in IndexNames },
        f3 \in { Func(n, n, IndexAction(3)) : n \in IndexNames } }

\* The identifiers a device command message may carry.
Identifiers == { S("on"), S("off"), S("PowerOff"), S("nope"), S("constructor") }

InitIndex ==
    /\ state = [startingActivity |-> Null, currentActivity |-> Null,
                isOff |-> "undefined", commands |-> Undefined,
                activities |-> FALSE]
    /\ activities = FALSE
    /\ devices = FALSE
    /\ deviceSlugs = FALSE
    /\ connect = "harmony"
    /\ poll = [pc |-> "off", startingActivity |-> Null, currentActivity |-> Null,
               newActivity |-> FALSE, exception |-> "none"]
    /\ hubActivity = PowerOff
    /\ msgs = << >>
    /\ harmonyClient = "none"
    /\ process = "running"
    /\ pollLoops = 0
    /\ lookup \in { [NoLookup EXCEPT !.pc = "reported", !.raw = d] : d \in IndexDevices }
                  \cup { [NoLookup EXCEPT !.pc = "polled", !.raw = a] : a \in IndexActivities }

\* getDevices() on the reported device: its slug and its command index.
IndexDevice ==
    /\ lookup.pc = "reported"
    /\ lookup' = [lookup EXCEPT !.pc = "indexed", !.device = Device(lookup.raw)]
    /\ UNCHANGED << state, activities, devices, deviceSlugs, connect, poll,
                    hubActivity, msgs, harmonyClient, process, pollLoops >>

\* findAction(device, slug) on the indexed device.
ResolveAction(slug) ==
    /\ lookup.pc = "indexed"
    /\ lookup' = [lookup EXCEPT !.pc = "resolved", !.slug = slug,
                                !.action = findAction(lookup.device, slug)]
    /\ UNCHANGED << state, activities, devices, deviceSlugs, connect, poll,
                    hubActivity, msgs, harmonyClient, process, pollLoops >>

\* What commands[command] yields: the function stored under that name, the
\* Object function for a name every object inherits, else undefined.
Inherited == [name |-> S("Object"), label |-> Null, action |-> UndefinedToken]
control(commands, name) ==
    IF HasOwn(commands, name) THEN Get(commands, name)
    ELSE IF Truthy(commands, name) THEN Inherited
    ELSE Null

\* A tick finds the reported activity to be the new current one: getCommands()
\* flattens its control groups.
FlattenActivity ==
    /\ lookup.pc = "polled"
    /\ lookup' = [lookup EXCEPT
                    !.pc = "flattened",
                    !.device = getCommands(PutById(EmptyObject, << lookup.raw >>),
                                           lookup.raw.id).value]
    /\ UNCHANGED << state, activities, devices, deviceSlugs, connect, poll,
                    hubActivity, msgs, harmonyClient, process, pollLoops >>

\* command(command) looks the name up in the flattened map.
LookupCommand(name) ==
    /\ lookup.pc = "flattened"
    /\ lookup' = [lookup EXCEPT !.pc = "looked", !.slug = name,
                                !.action = control(lookup.device, name)]
    /\ UNCHANGED << state, activities, devices, deviceSlugs, connect, poll,
                    hubActivity, msgs, harmonyClient, process, pollLoops >>

NextIndex ==
    \/ IndexDevice
    \/ \E slug \in Identifiers : ResolveAction(slug)
    \/ FlattenActivity
    \/ \E name \in Identifiers : LookupCommand(name)

SpecIndex == InitIndex /\ [][NextIndex]_vars

----------------------------------------------------------------------------
(* Connection loss and termination signals *)

\* Everything but the connection and the process.
instance == << state, activities, devices, deviceSlugs, connect, poll, hubActivity,
               msgs, pollLoops, lookup >>

\* On a loss the instance calls connect() again.
HubLoss_Reconnect ==
    /\ process = "running"
    /\ harmonyClient = "open"
    /\ harmonyClient' = "lost"
    /\ connect' = "harmony"
    /\ UNCHANGED << state, activities, devices, deviceSlugs, poll, hubActivity,
                    msgs, pollLoops, lookup, process >>

\* The hub connection is lost.  connect() registers no listener on the
\* client, so this.harmonyClient goes on referring to the closed connection
\* and nothing else happens.
HubLoss ==
    /\ process = "running"
    /\ harmonyClient = "open"
    /\ harmonyClient' = "lost"
    /\ UNCHANGED << instance, process >>

Signals == { "SIGINT", "SIGTERM" }

\* A termination signal arrives.  Once connect() has its client, SIGINT has a
\* listener: harmonyClient.end(), then process.exit(), whose exit listener
\* calls end() again.  A signal without a listener ends the process by its
\* default action, and no exit listener runs.
Signal(sig) ==
    /\ process = "running"
    /\ process' = sig
    /\ harmonyClient' = IF sig = "SIGINT" /\ harmonyClient # "none"
                        THEN "ended" ELSE harmonyClient
    /\ UNCHANGED instance

\* One message of each route, and one of none.
LifeMessages ==
    { << Topic(<<"/", "command">>), S("VolumeUp") >>,
      << Topic(<<"/", "activity">>), S("a1") >>,
      << Topic(<<"/", "device", "/", "tv">>), S("on") >>,
      << Topic(<<"/", "scene">>), S("on") >> }

NextLife ==
    \/ Steps
    \/ \E m \in LifeMessages : Deliver(m[1], m[2])
    \/ HubLoss
    \/ \E sig \in Signals : Signal(sig)

SpecLife == Init /\ [][NextLife]_vars

----------------------------------------------------------------------------
(* Two messages handled concurrently *)

\* How many messages arrive when two handlers may run at once.
MaxPair == 2

\* A start request, a command and a device command.
PairMessages ==
    { << Topic(<<"/", "activity">>), S("a1") >>,
      << Topic(<<"/", "command">>), S("VolumeUp") >>,
      << Topic(<<"/", "device", "/", "tv">>), S("on") >> }

\* A message arrives while the handler of an earlier one may be waiting for
\* the hub.
DeliverPair(topic, payload) ==
    /\ Len(msgs) < MaxPair
    /\ Arrival(topic, payload)

NextPair ==
    \/ \E a \in HubActs : HubChange(a)
    \/ \E ok \in BOOLEAN : ConnectHarmony(ok)
    \/ \E ok \in BOOLEAN : RefreshAvailableCommands(ok)
    \/ \E ok \in BOOLEAN : RefreshDevices(ok)
    \/ \E ok \in BOOLEAN : RefreshActivities(ok)
    \/ \E ok \in BOOLEAN : PollCurrentActivity(ok)
    \/ \E ok \in BOOLEAN : PollIsOff(ok)
    \/ PollWait
    \/ \E m \in PairMessages : DeliverPair(m[1], m[2])
    \/ \E i \in 1..MaxPair, ok \in BOOLEAN : StartActivityReturn(i, ok)
    \/ \E i \in 1..MaxPair, ok \in BOOLEAN : PressReturn(i, ok)
    \/ \E i \in 1..MaxPair, ok \in BOOLEAN : ReleaseReturn(i, ok)

SpecPair == Init /\ [][NextPair]_vars

----------------------------------------------------------------------------
(* Device commands and the identifier of their device *)

\* Device commands that name the device TV by its slug and by its id, the
\* other device by its id, and no device.
DeviceMessages ==
    { << Topic(<<"/", "device", "/", "tv">>), S("on") >>,
      << Topic(<<"/", "device", "/", "tv">>), S("PowerOff") >>,
      << Topic(<<"/", "device", "/", "1">>), S("on") >>,
      << Topic(<<"/", "device", "/", "2">>), S("Play") >>,
      << Topic(<<"/", "device", "/", "xx">>), S("on") >> }

\* connect() up to the start of poll(), and the device commands with their
\* sends.
NextDevice ==
    \/ \E ok \in BOOLEAN : ConnectHarmony(ok)
    \/ \E ok \in BOOLEAN : RefreshAvailableCommands(ok)
    \/ \E ok \in BOOLEAN : RefreshDevices(ok)
    \/ \E ok \in BOOLEAN : RefreshActivities(ok)
    \/ \E m \in DeviceMessages : Deliver(m[1], m[2])
    \/ \E i \in 1..MaxMsgs, ok \in BOOLEAN : PressReturn(i, ok)
    \/ \E i \in 1..MaxMsgs, ok \in BOOLEAN : ReleaseReturn(i, ok)

SpecDevice == Init /\ [][NextDevice]_vars

----------------------------------------------------------------------------
(* Steps and vocabulary of the properties *)

\* A tick has both its hub answers and writes the state in this step.
TickWrites ==
    poll.pc = "isOff" /\ poll'.pc = "wait" /\ poll'.exception # "isOff"

\* A tick ends in this step without any exception.
TickCompletes == TickWrites /\ poll'.exception = "none"

\* A tick ends in this step with an exception.
TickThrows ==
    poll.pc \in { "getCurrentActivity", "isOff" } /\ poll'.pc = "wait"
    /\ poll'.exception # "none"

\* A tick starts in this step.
TickStarts == poll.pc # "getCurrentActivity" /\ poll'.pc = "getCurrentActivity"

\* A message is delivered in this step.
Delivered == Len(msgs') = Len(msgs) + 1
Delivery == msgs'[Len(msgs')]

\* The start-activity call of invocation i is in flight.
StartInFlight(i) == msgs[i].route = "activity" /\ msgs[i].pc = "startActivity"

Publishes(log) == SelectSeq(log, LAMBDA e : e.ev = "publish")
Sends(log) == SelectSeq(log, LAMBDA e : e.ev = "send")

----------------------------------------------------------------------------
(* C1 *)

\* C1: startingActivity is non-null only while the hub startActivity call of
\* some start-activity request is in flight (issued and not yet returned).
\* Stated for a flag that names an activity of the catalog.
C1_FlagOnlyWhileInFlight ==
    state.startingActivity \in Keys(getActivities) =>
        \E i \in 1..Len(msgs) : StartInFlight(i)

----------------------------------------------------------------------------
(* C2 *)

----------------------------------------------------------------------------
(* C3 *)

\* C3: a start-activity message whose payload resolves to an activity T sets
\* startingActivity to T and publishes that state before it calls the hub:
\* the request's first event is the publish with startingActivity = T, its
\* second the hub startActivity(T) call.
C3_PublishBeforeHubStart ==
    [][ (Delivered /\ Delivery.route = "activity"
           /\ findActivity(thisActivities, Delivery.payload) # Null) =>
          LET T == findActivity(thisActivities, Delivery.payload) IN
          /\ state'.startingActivity = T
          /\ Delivery.log = << [ev |-> "publish", arg |-> T, status |-> ""],
                               [ev |-> "startActivity", arg |-> T, status |-> ""] >> ]_vars

\* The start of a1, asked by label, is in flight and the flag names it.
C3_Witness ==
    \E i \in 1..Len(msgs) :
        /\ StartInFlight(i)
        /\ msgs[i].payload = <<"Watch", " ", "TV">>
        /\ state.startingActivity = S("a1")
        /\ Len(msgs[i].log) = 2

----------------------------------------------------------------------------
(* C4 *)

\* C4: when the hub startActivity(T) call returns successfully, startActivity
\* sets startingActivity to null and publishes again, then resolves; the
\* request has made exactly two publishes, the first with T, the second
\* with null.
C4_ClearAndRepublishOnSuccess ==
    [][ \A i \in 1..Len(msgs) :
          (StartInFlight(i) /\ msgs'[i].call = "resolved") =>
            /\ state'.startingActivity = Null
            /\ msgs'[i].handler = "resolved"
            /\ Publishes(msgs'[i].log) =
                  << [ev |-> "publish", arg |-> msgs[i].activity, status |-> ""],
                     [ev |-> "publish", arg |-> Null, status |-> ""] >>
            /\ msgs'[i].log[Len(msgs'[i].log)].ev = "publish" ]_vars

\* A start of a1 has succeeded.
C4_Witness ==
    \E i \in 1..Len(msgs) :
        /\ msgs[i].route = "activity" /\ msgs[i].activity = S("a1")
        /\ msgs[i].call = "resolved"
        /\ Len(Publishes(msgs[i].log)) = 2

----------------------------------------------------------------------------
(* C5 *)

\* C5: when the hub startActivity(T) call fails, the call is rejected, the
\* request makes no second publish and the flag is left T; from then on the
\* flag stays T unless a tick has polled T or a startActivity call (a new
\* request, or another one returning) writes it.  Stated for an activity T
\* of the catalog.
C5_StaleUntilArrivalOrRequest ==
    [][ \A i \in 1..Len(msgs) :
          /\ (StartInFlight(i) /\ msgs'[i].call = "rejected") =>
                /\ state' = state
                /\ Len(Publishes(msgs'[i].log)) = 1
          /\ (msgs[i].route = "activity" /\ msgs[i].call = "rejected"
                /\ msgs[i].activity \in Keys(getActivities)
                /\ state.startingActivity = msgs[i].activity
                /\ state'.startingActivity # msgs[i].activity) =>
                \/ TickWrites /\ poll.currentActivity = msgs[i].activity
                \/ Delivered
                \/ \E j \in 1..Len(msgs) : StartInFlight(j) /\ msgs'[j].pc = "done" ]_vars

----------------------------------------------------------------------------
(* C6 *)

\* C6: a tick in which getCurrentActivity, isOff or the recomputation of the
\* command map throws leaves the LiveState as it was; a tick that completes
\* writes the polled currentActivity and isOff.
C6_FailedTickLeavesState ==
    [][ /\ TickThrows => state' = state
        /\ TickCompletes =>
              /\ state'.currentActivity = poll.currentActivity
              /\ state'.isOff = (IF hubActivity = PowerOff THEN "true" ELSE "false") ]_vars

----------------------------------------------------------------------------
(* C7 *)

\* The polled activity of the tick that ends in this step differs from the
\* one recorded in the LiveState.
PolledDiffers == poll.currentActivity # state.currentActivity

----------------------------------------------------------------------------
(* C8 *)

RECURSIVE EvenColonRuns(_)
\* Every ':' of the token is one of a pair '::'.
EvenColonRuns(s) ==
    IF s = << >> THEN TRUE
    ELSE IF Head(s) # ":" THEN EvenColonRuns(Tail(s))
    ELSE Len(s) >= 2 /\ s[2] = ":" /\ EvenColonRuns(Tail(Tail(s)))

RECURSIVE Unescape(_)
\* The token with each pair '::' read back as ':'.
Unescape(s) ==
    IF s = << >> THEN << >>
    ELSE IF Head(s) = ":" /\ Len(s) >= 2 /\ s[2] = ":"
    THEN <<":">> \o Unescape(Tail(Tail(s)))
    ELSE <<Head(s)>> \o Unescape(Tail(s))

Range(seq) == { seq[i] : i \in 1..Len(seq) }

\* The raw catalog actions a message can resolve to: those of the activity
\* functions with the payload as name, or of the device functions with the
\* payload as slug or name.
RawActions(m) ==
    IF m.route = "command"
    THEN { f.action : f \in { g \in UNION { Range(Flatten(a.controlGroup)) :
                                             a \in Range(HubActivities) } :
                              g.name = m.payload } }
    ELSE { f.action : f \in { g \in UNION { Range(Flatten(d.controlGroup)) :
                                             d \in Range(HubDevices) } :
                              g.name = m.payload
                              \/ parameterize(g.label) = m.payload } }

\* C8: every action token of a hub send call, on the command path and on the
\* device path, has no unescaped ':': it is the raw action of the resolved
\* command with every ':' doubled (or the text of null / undefined when no
\* command was resolved).
C8_NoUnescapedColon ==
    \A i \in 1..Len(msgs) : \A k \in 1..Len(msgs[i].log) :
        LET e == msgs[i].log[k] IN
        e.ev = "send" =>
            /\ EvenColonRuns(e.arg)
            /\ \/ e.arg \in { NullToken, UndefinedToken }
               \/ Unescape(e.arg) \in RawActions(msgs[i])

\* A device command whose raw action holds ':' has been pressed and released.
C8_Witness ==
    \E i \in 1..Len(msgs) :
        /\ msgs[i].route = "device" /\ msgs[i].call = "resolved"
        /\ \E k \in 1..Len(msgs[i].log) :
              /\ msgs[i].log[k].status = "release"
              /\ ":" \in Range(msgs[i].log[k].arg)

----------------------------------------------------------------------------
(* C9 *)

\* The branch the topic's path segments select: last segment command, last
\* segment activity, fourth segment device, else none.
SegmentRoute(topic) ==
    LET parts == Split(topic) IN
    IF parts[Len(parts)] = S("command") THEN "command"
    ELSE IF parts[Len(parts)] = S("activity") THEN "activity"
    ELSE IF Part(parts, 3) = S("device") THEN "device"
    ELSE "invalid"

\* C9: every message is handled by the one branch its path segments select;
\* a topic <root>/<hubId>/set/device/<id> whose last segment is not exactly
\* command or activity is handled as a device command.
C9_RouteBySegment ==
    \A i \in 1..Len(msgs) : msgs[i].route = SegmentRoute(msgs[i].topic)

----------------------------------------------------------------------------
(* C10 *)

CommandTopic == Topic(<<"/", "command">>)

----------------------------------------------------------------------------
(* C11 *)

ActivityTopic == Topic(<<"/", "activity">>)

\* The ids and the labels of the activities the hub knows.
KnownActivityNames ==
    { a.id : a \in Range(HubActivities) } \cup { a.label : a \in Range(HubActivities) }

\* C11: a .../set/activity message whose payload is neither the id nor the
\* exact label of a known activity makes no hub call and no publish and leaves
\* the LiveState unchanged (startingActivity is not set).
C11_UnknownActivityDropped ==
    [][ (Delivered /\ Delivery.topic = ActivityTopic
           /\ Delivery.payload \notin KnownActivityNames) =>
          /\ Delivery.log = << >>
          /\ state' = state ]_vars

----------------------------------------------------------------------------
(* C12 *)

\* The topic is <root>/<hubId>/set/device/<deviceSlug> and the slug names a
\* device of the catalog.
KnownDeviceTopic(topic) ==
    LET parts == Split(topic) IN
    /\ Len(parts) = 5
    /\ SubSeq(topic, 1, Len(TopicPrefix)) = TopicPrefix
    /\ parts[4] = S("device")
    /\ parts[5] \in { parameterize(d.label) : d \in Range(HubDevices) }

\* The raw catalog functions of the device with that slug which the payload
\* names, by the slug of their label or by their name.
NamedFunctions(deviceSlug, payload) ==
    { f \in UNION { Range(Flatten(d.controlGroup)) :
                     d \in { e \in Range(HubDevices) : parameterize(e.label) = deviceSlug } } :
        parameterize(f.label) = payload \/ f.name = payload }

\* C12: a .../set/device/<deviceSlug> message whose slug names a known device
\* and whose payload resolves to a command of that device issues exactly two
\* hub sends: a press and, only once the press has returned, a release with
\* the same escaped action token; when the press fails no release is sent.
C12_PressThenRelease ==
    [][ /\ (Delivered /\ deviceSlugs /\ KnownDeviceTopic(Delivery.topic)
              /\ NamedFunctions(Split(Delivery.topic)[5], Delivery.payload) # {}) =>
              /\ Delivery.pc = "press"
              /\ Len(Delivery.log) = 1
              /\ Delivery.log[1].ev = "send" /\ Delivery.log[1].status = "press"
              /\ Delivery.log[1].arg \in
                    { ReplaceColons(f.action) :
                        f \in NamedFunctions(Split(Delivery.topic)[5], Delivery.payload) }
        /\ \A i \in 1..Len(msgs) :
              /\ (msgs[i].pc = "press" /\ msgs'[i].pc # "press") =>
                    IF msgs'[i].call = "rejected"
                    THEN msgs'[i].log = msgs[i].log /\ msgs'[i].pc = "done"
                    ELSE /\ msgs'[i].pc = "release"
                         /\ msgs'[i].log =
                               Append(msgs[i].log, Send(msgs[i].log[1].arg, "release"))
              /\ (msgs[i].pc = "release" /\ msgs'[i] # msgs[i]) =>
                    msgs'[i].log = msgs[i].log /\ msgs'[i].pc = "done"
              /\ msgs[i].pc = "done" => msgs'[i] = msgs[i] ]_vars

----------------------------------------------------------------------------
(* C13 *)

\* The topic is <root>/<hubId>/set/device/<id>.
DeviceTopic(topic) ==
    LET parts == Split(topic) IN
    /\ Len(parts) = 5
    /\ SubSeq(topic, 1, Len(TopicPrefix)) = TopicPrefix
    /\ parts[4] = S("device")

\* C13: a .../set/device/<id> message whose identifier matches no known
\* device, or whose payload matches no command of the device by slug or by
\* name, is dropped: no hub send is issued and the LiveState is unchanged.
C13_UnknownDeviceCommandDropped ==
    [][ (Delivered /\ DeviceTopic(Delivery.topic)
           /\ (~KnownDeviceTopic(Delivery.topic)
                 \/ NamedFunctions(Split(Delivery.topic)[5], Delivery.payload) = {})) =>
          /\ Sends(Delivery.log) = << >>
          /\ state' = state ]_vars

----------------------------------------------------------------------------
(* C14 *)

\* C14: on each of the three routes, a failure of a hub call made while a
\* message is handled (press, release or startActivity) is caught inside the
\* message handler: the handler's promise is not rejected and no rejected
\* promise is left without a handler.
C14_HubFailureCaught ==
    [][ \A i \in 1..Len(msgs) :
          (msgs[i].pc \in { "startActivity", "press", "release" }
             /\ ~msgs[i].unhandled
             /\ msgs'[i].call = "rejected") =>
            /\ ~msgs'[i].unhandled
            /\ msgs'[i].handler # "rejected" ]_vars

----------------------------------------------------------------------------
(* C15 *)

\* A tick is between its first hub call and its state write.
TickInFlight == poll.pc \in { "getCurrentActivity", "isOff" }

\* C15: poll ticks never overlap, after any sequence of connects, connection
\* losses and messages: poll() is called at most once for the instance, and a
\* tick starts only when the loop is starting or the tick before it is over
\* and the loop has waited.
C15_OnePollLoop ==
    [][ /\ pollLoops' <= 1
        /\ (poll.pc = "off") <=> (pollLoops = 0)
        /\ TickStarts => ~TickInFlight /\ poll.pc \in { "off", "wait" } ]_vars

\* After a connection loss and a message, a tick of the one loop is in flight.
C15_Witness ==
    /\ harmonyClient = "lost" /\ msgs # << >>
    /\ pollLoops = 1 /\ poll.pc = "isOff"

----------------------------------------------------------------------------
(* C16 *)

----------------------------------------------------------------------------
(* C17 *)

\* This step issues a hub call of a poll tick (getCurrentActivity, isOff) or
\* of a message handler (startActivity, press, release).
IssuesHubCall ==
    \/ TickStarts
    \/ poll.pc = "getCurrentActivity" /\ poll'.pc = "isOff"
    \/ Delivered /\ Delivery.log # << >>
    \/ \E i \in 1..Len(msgs) : msgs[i].pc = "press" /\ msgs'[i].pc = "release"

\* C17: after a connection loss the client is reconstructed and
\* this.harmonyClient replaced, so that no hub call of a poll tick or of a
\* message handler is issued on the closed client: whenever such a call is
\* issued, this.harmonyClient is not a connection that has been lost.
C17_NoCallOnClosedClient ==
    [][ IssuesHubCall => harmonyClient # "lost" /\ harmonyClient' # "lost" ]_vars

----------------------------------------------------------------------------
(* C18 *)

\* C18: on every path by which the process ends after a termination signal,
\* the connection the instance holds has had harmonyClient.end() called on it
\* before the process ends, whatever the instance was doing.
C18_ClientEndedAtExit ==
    process \in Signals => harmonyClient \in { "none", "ended" }

----------------------------------------------------------------------------
(* C19 *)

\* The functions of the device under resolution, in catalog order.
LookupFunctions == Flatten(lookup.raw.controlGroup)

\* C19 as claimed: for every command C listed under the device, resolving
\* the slug of C's label returns the escaped action of C, also when two
\* commands of the device have labels with the same slug.
C19_ResolveSlugOfLabel ==
    lookup.pc = "resolved" =>
        \A k \in 1..Len(LookupFunctions) :
            lookup.slug = parameterize(LookupFunctions[k].label) =>
                lookup.action = ReplaceColons(LookupFunctions[k].action)

\* The place of the last function whose label has that slug.
LastWithSlug(funcs, slug) ==
    CHOOSE k \in 1..Len(funcs) :
        /\ parameterize(funcs[k].label) = slug
        /\ \A j \in (k+1)..Len(funcs) : parameterize(funcs[j].label) # slug

\* C19 as amended: resolving the slug of C's label returns the escaped action
\* of the last command of the device, in catalog order, whose label has that
\* slug: C itself when no later command shares its slug.
C19_ResolveSlugOfLastLabel ==
    lookup.pc = "resolved" =>
        \A k \in 1..Len(LookupFunctions) :
            lookup.slug = parameterize(LookupFunctions[k].label) =>
                lookup.action =
                    ReplaceColons(LookupFunctions[
                        LastWithSlug(LookupFunctions, lookup.slug)].action)

\* The slug of two labels of one control group (On and On.) has been
\* resolved, to the action of the later of the two.
C19_Witness ==
    /\ lookup.pc = "resolved" /\ lookup.slug = S("on")
    /\ Len(lookup.raw.controlGroup) = 1
    /\ LookupFunctions[1].label = S("On")
    /\ LookupFunctions[2].label = <<"On", ".">>
    /\ LookupFunctions[3].label = S("Off")
    /\ lookup.action = ReplaceColons(IndexAction(2))

----------------------------------------------------------------------------
(* C20 *)

\* The commands of the device under resolution, in the order of its index.
LookupCommands ==
    [k \in 1..Len(lookup.device.commands.ents) |-> lookup.device.commands.ents[k][2]]

\* C20: resolving an identifier against a device returns the command whose
\* slug equals the identifier if there is one; otherwise the first command
\* whose name equals the identifier; otherwise null.  A slug match wins over
\* a name match of another command.
C20_SlugThenNameThenNull ==
    lookup.pc = "resolved" =>
        LET bySlug == { k \in 1..Len(LookupCommands) :
                          LookupCommands[k].slug = lookup.slug }
            byName == { k \in 1..Len(LookupCommands) :
                          LookupCommands[k].name = lookup.slug }
        IN  IF bySlug # {}
            THEN \E k \in bySlug : lookup.action = LookupCommands[k].action
            ELSE IF byName # {}
            THEN lookup.action =
                     LookupCommands[CHOOSE k \in byName :
                                        \A j \in byName : k <= j].action
            ELSE lookup.action = NullToken

----------------------------------------------------------------------------
(* C21 *)

\* The place of the last function with that name.
LastWithName(funcs, name) ==
    CHOOSE k \in 1..Len(funcs) :
        /\ funcs[k].name = name
        /\ \A j \in (k+1)..Len(funcs) : funcs[j].name # name

\* C21: for every command C in any control group of an activity, looking up
\* C.name in the command map flattened from that activity returns the last
\* command of that name in the order of the groups: C itself when no later
\* command has its name, and the entry of the later group when two groups
\* hold commands of the same name.
C21_LookupByName ==
    lookup.pc = "looked" =>
        \A k \in 1..Len(LookupFunctions) :
            lookup.slug = LookupFunctions[k].name =>
                /\ lookup.action =
                      LookupFunctions[LastWithName(LookupFunctions, lookup.slug)]
                /\ (\A j \in (k+1)..Len(LookupFunctions) :
                        LookupFunctions[j].name # lookup.slug) =>
                      lookup.action = LookupFunctions[k]

\* Two groups hold a command named off; looking the name up has returned the
\* one of the later group.
C21_Witness ==
    /\ lookup.pc = "looked" /\ lookup.slug = S("off")
    /\ Len(lookup.raw.controlGroup) = 2
    /\ lookup.raw.controlGroup[1][1].name = S("off")
    /\ lookup.raw.controlGroup[2][1].name = S("off")
    /\ lookup.action = lookup.raw.controlGroup[2][1]
    /\ lookup.action # lookup.raw.controlGroup[1][1]

----------------------------------------------------------------------------
(* C22 *)

\* The device an identifier stands for when it is tried as a slug, then as a
\* key of the device map (the devices by id): null when it is neither.
DeviceOf(id) ==
    IF HasOwn(getDeviceSlugs, id) THEN Get(getDeviceSlugs, id)
    ELSE IF HasOwn(getDevices, id) THEN Get(getDevices, id)
    ELSE Null

\* C22: in a .../set/device/<id> message the identifier is resolved as a
\* device slug, then as a string key, then as a numeric key of the device map;
\* an identifier that is the slug of a known device resolves to that device.
\* Once the catalog is loaded, the action the message sends is the one
\* findAction gives for that device and the payload.
C22_SlugThenIdKey ==
    [][ (Delivered /\ deviceSlugs /\ DeviceTopic(Delivery.topic)) =>
          LET id == Split(Delivery.topic)[5] IN
          /\ DeviceOf(id) # Null =>
                /\ Delivery.route = "device"
                /\ Delivery.action = findAction(DeviceOf(id), Delivery.payload)
          /\ \A d \in Range(HubDevices) :
                parameterize(d.label) = id =>
                    /\ Delivery.route = "device"
                    /\ Delivery.action = findAction(Device(d), Delivery.payload) ]_vars

----------------------------------------------------------------------------
(* C23 *)

\* The command map getCommands() computes for an activity of the catalog.
CommandsOf(a) == getCommands(getActivities, a).value

\* C23: wherever a message handler can read the LiveState (any state between
\* two steps), the LiveState is not half-updated: once a tick has written it,
\* commands is the flattened command map of the activity recorded in
\* currentActivity, and of no other activity.
C23_CommandsOfCurrentActivity ==
    state.currentActivity # Null =>
        /\ state.currentActivity \in Keys(getActivities) =>
              state.commands = CommandsOf(state.currentActivity)
        /\ \A a \in Keys(getActivities) \ { state.currentActivity } :
              state.commands # CommandsOf(a)

----------------------------------------------------------------------------
(* C24 *)

\* Invocation i is the latest start request: no later message has asked for
\* the start of an activity.
LatestStart(i) ==
    \A j \in (i+1)..Len(msgs) : msgs[j].activity = Null

\* C24: while the hub startActivity(T) call of a request is in flight and no
\* later start request has been made, startingActivity is T: neither a tick
\* that read the flag before the request and writes after it, nor an earlier
\* overlapping startActivity call that completes, resets it.
C24_FlagHeldWhileInFlight ==
    \A i \in 1..Len(msgs) :
        (StartInFlight(i) /\ LatestStart(i)) =>
            state.startingActivity = msgs[i].activity

----------------------------------------------------------------------------
(* C25 *)

\* connect() has been called and has neither resolved nor rejected: the
\* client or a part of the catalog is still awaited.
Connecting ==
    connect \in { "harmony", "getAvailableCommands", "getDevices", "getActivities" }

\* C25: a message of any route that arrives after construction and before
\* connect and the initial refresh have completed issues no hub call, leaves
\* the LiveState unchanged and raises no error: its handler is not rejected
\* and it leaves no rejected promise without a handler.
C25_EarlyMessageIgnored ==
    [][ (Delivered /\ Connecting) =>
          /\ Delivery.log = << >>
          /\ Delivery.pc = "done"
          /\ state' = state
          /\ Delivery.handler # "rejected"
          /\ ~Delivery.unhandled ]_vars

----------------------------------------------------------------------------
(* C26 *)

\* The action token of an invocation is that of a command of the catalog.
Resolved(m) == m.action \notin { Null, NullToken, UndefinedToken }

\* The press of invocation i has been sent and its release has not.
PressPending(i) == msgs[i].pc = "press" /\ Resolved(msgs[i])

\* This step sends a press or a release for an invocation other than i.
OtherSend(i) ==
    \E j \in 1..Len(msgs') :
        /\ j # i
        /\ Resolved(msgs'[j])
        /\ Sends(msgs'[j].log) # (IF j <= Len(msgs) THEN Sends(msgs[j].log) ELSE << >>)

\* C26: in the hub send calls of the instance every press is immediately
\* followed by the release with the same action token: while the press of one
\* message has been sent and its release has not, no send is issued for
\* another message, and when the press returns successfully the release is
\* sent with the token of the press.  Stated for the sends that carry the
\* action token of a command of the catalog.
C26_PressReleaseAdjacent ==
    [][ \A i \in 1..Len(msgs) :
          PressPending(i) =>
            /\ ~OtherSend(i)
            /\ (msgs'[i].pc # "press" /\ msgs'[i].call # "rejected") =>
                  /\ msgs'[i].pc = "release"
                  /\ Sends(msgs'[i].log) =
                        << Send(msgs[i].action, "press"),
                           Send(msgs[i].action, "release") >> ]_vars

----------------------------------------------------------------------------
(* C27 *)

\* C27: on both send paths the raw catalog action is escaped exactly once
\* before it is sent: the token of every press and release, however many
\* ticks preceded it, is a raw action the message can resolve to with each
\* ':' replaced by '::', and not that replacement applied twice.
C27_EscapedOnce ==
    \A i \in 1..Len(msgs) : \A k \in 1..Len(msgs[i].log) :
        LET e == msgs[i].log[k] IN
        (e.ev = "send" /\ e.arg \notin { NullToken, UndefinedToken }) =>
            /\ \E raw \in RawActions(msgs[i]) : e.arg = ReplaceColons(raw)
            /\ \A raw \in RawActions(msgs[i]) :
                  ":" \in Range(raw) => e.arg # ReplaceColons(ReplaceColons(raw))

\* After a tick that found the activity unchanged, a command resolved through
\* the map of a1 and a device command resolved through the index of TV have
\* both been pressed and released, each with its once-escaped token.
C27_Witness ==
    /\ poll.pc = "wait" /\ ~poll.newActivity /\ state.currentActivity = S("a1")
    /\ \E i, j \in 1..Len(msgs) :
          /\ msgs[i].route = "command" /\ msgs[i].call = "resolved"
          /\ Sends(msgs[i].log) = << Send(<<"vol", ":", ":", "up">>, "press"),
                                     Send(<<"vol", ":", ":", "up">>, "release") >>
          /\ msgs[j].route = "device" /\ msgs[j].call = "resolved"
          /\ Sends(msgs[j].log) =
                << Send(<<"tv", ":", ":", ":", ":", "on2">>, "press"),
                   Send(<<"tv", ":", ":", ":", ":", "on2">>, "release") >>

============================================================================
